---- MODULE Spec2Model ----
(***************************************************************************)
(* Model of the token lifecycle and request gateway of                     *)
(* src/tradestation_module.py (class TradeStation): _authenticate,         *)
(* _refresh and _request, with the token_cache file, the wall clock and    *)
(* the provider's responses as the environment.                            *)
(*                                                                         *)
(* Python dicts (self.config, the requests session headers, JSON bodies,   *)
(* the working directory) are functions whose DOMAIN is the set of keys,   *)
(* so `k in d` is  k \in DOMAIN d  and a missing key is a KeyError.        *)
(* The clock is read in whole seconds; one gateway call is taken to read   *)
(* one instant, so the clock advances between calls only.                  *)
(***************************************************************************)
EXTENDS Integers, Sequences, FiniteSets, TLC

VARIABLES
    files,      \* the working directory: file name -> parsed JSON content
    config,     \* self.config
    headers,    \* self._s.headers (default headers of the requests session)
    now,        \* datetime.now(), in seconds
    pc,         \* position of the process: "idle", a line of _request, or
                \* "done" when _request has returned or raised
    trace,      \* what the current (or last) _request did, in order
    result,     \* how the current (or last) _request ended
    start,      \* what held when the current (or last) _request was entered
    authRuns,   \* number of _authenticate runs of this session
    cacheWrites,\* number of writes of token_cache by this session
    cacheDeleted, \* whether token_cache was ever deleted by hand
    cacheReads, \* number of reads of token_cache by this session
    persisted,  \* the refresh tokens that token_cache has held so far
    opArgs,     \* the arguments of the brokerage operation being run
    opOut       \* what that operation has produced: <<>> until it has run

vars == <<files, config, headers, now, pc, trace, result, start,
          authRuns, cacheWrites, cacheDeleted, cacheReads, persisted,
          opArgs, opOut>>

\* the state of the brokerage operations of lines 122-150 and 218-225
opVars == <<opArgs, opOut>>

----------------------------------------------------------------------------
(* Bounds of the model *)

MaxNow == 2
MaxAuthRuns == 2
MaxCacheReads == 2

(* Program constants *)

SafetyMargin == 60

\* opaque token strings handed out by the provider; a token response is
\* identified by its access token, its id_token being IdToken(access_token)
RefreshTokens == {"rt_a", "rt_b"}
AccessTokens == {"at_a", "at_b"}
IdToken(access_token) == <<"id", access_token>>
\* expires_in: a positive integer; 1, the margin itself, and the lifetimes
\* that end within the clock's horizon
ExpiresIn == {1} \cup (SafetyMargin..(SafetyMargin + MaxNow))
\* status codes of a final HTTP response, at the edges of each class
Statuses == {200, 299, 304, 399, 400, 599}
Reasons == {"reason_a", "reason_b"}

----------------------------------------------------------------------------
(* Dicts *)

EmptyDict == [k \in {} |-> 0]

Put(d, k, v) == [x \in DOMAIN d \cup {k} |-> IF x = k THEN v ELSE d[x]]

Has(d, k) == k \in DOMAIN d

----------------------------------------------------------------------------
(* Pure pieces of the code *)

\* the check of line 88 with its `not` dropped
PathExists_Inverted(fs, name) == name \notin DOMAIN fs

\* the check of line 88 made on a path that is never there
PathExists_Never(fs, name) == FALSE

\* os.path.exists('token_cache')
PathExists(fs, name) == name \in DOMAIN fs

\* the config built by __init__
InitConfig ==
    [k \in {"client_id", "secret_key", "username", "account", "base_url",
            "return_uri"} |->
        CASE k = "client_id"  -> "api_key"
          [] k = "secret_key" -> "secret_key"
          [] k = "username"   -> "ts_username"
          [] k = "account"    -> "account"
          [] k = "base_url"   -> "https://sim-api.tradestation.com/v3/"
          [] k = "return_uri" -> "http://localhost:3000"]

\* datetime.now() + timedelta(seconds=expires_in - 60)
TokenExpiration(t, expires_in) == t + (expires_in - SafetyMargin)

\* line 98 with > for >=
NeedsRefresh_Late(cfg, t) ==
    \/ ~Has(cfg, "access_token")
    \/ t > cfg["token_expiration"]

\* line 98 without its second operand
NeedsRefresh_NoExpiry(cfg, t) == ~Has(cfg, "access_token")

\* 'access_token' not in self.config or now >= self.config['token_expiration']
\* (evaluated only where the second operand does not raise)
NeedsRefresh(cfg, t) ==
    \/ ~Has(cfg, "access_token")
    \/ t >= cfg["token_expiration"]

\* the second operand of line 98 raises KeyError
ExpirationMissing(cfg) ==
    Has(cfg, "access_token") /\ ~Has(cfg, "token_expiration")

\* line 103 treating only 5xx as a failure
RespOk_Below500(status_code) == status_code < 500

\* `if not resp`: Response.__bool__ is Response.ok, false for 4xx and 5xx
RespOk(status_code) == ~(400 <= status_code /\ status_code < 600)

\* f'[{resp.status_code}] {resp.reason}'
ErrorMessage(status_code, reason) == <<status_code, reason>>

\* 'Bearer ' + access_token
Bearer(access_token) == <<"Bearer", access_token>>

----------------------------------------------------------------------------
(* Results of a gateway call *)

Pending == [kind |-> "pending", exc |-> "", status |-> 0, message |-> <<0, "">>]

Returned(status_code) ==
    [kind |-> "returned", exc |-> "", status |-> status_code, message |-> <<0, "">>]

Raised(e) == [kind |-> "raised", exc |-> e, status |-> 0, message |-> <<0, "">>]

RaisedApi(status_code, reason) ==
    [kind |-> "raised", exc |-> "ApiException", status |-> status_code,
     message |-> ErrorMessage(status_code, reason)]

\* an entry of `trace`: the step taken and how it went; a successful
\* refresh also notes the expires_in and access_token it was given, a
\* brokerage response its status code and reason
Event(op, outcome) == <<op, outcome>>

RefreshEvent(expires_in, access_token) == <<"refresh", "ok", expires_in, access_token>>

ResponseEvent(status_code, reason) == <<"request", "response", status_code, reason>>

Ops(tr) == [i \in DOMAIN tr |-> tr[i][1]]

----------------------------------------------------------------------------
(* Bodies the token endpoint can answer with *)

\* a successful token response to the authorization_code grant
TokenRecord(rt) == [k \in {"refresh_token"} |-> rt]

\* the JSON body of a non-success answer
ErrorRecord == [k \in {"error"} |-> 0]

RefreshKeys == {"access_token", "id_token", "expires_in"}

\* a JSON body answering the refresh_token grant, holding the keys `keys`
RefreshBody(keys, tok, expires_in) ==
    [k \in keys |-> CASE k = "expires_in" -> expires_in
                      [] k = "id_token" -> IdToken(tok)
                      [] OTHER -> tok]

\* the record of `start` while no gateway call is running
NoCall == [refresh_token |-> FALSE, cache |-> FALSE, access_token |-> FALSE,
           expired |-> FALSE, valid |-> FALSE]

\* no brokerage operation is being looked at
NoOp == [op |-> "none"]

----------------------------------------------------------------------------
Init ==
    /\ files \in {EmptyDict} \cup
                 {Put(EmptyDict, "token_cache", TokenRecord(rt)) : rt \in RefreshTokens}
    /\ config = InitConfig
    /\ headers = EmptyDict
    /\ now = 0
    /\ pc = "idle"
    /\ trace = <<>>
    /\ result = Pending
    /\ start = NoCall
    /\ authRuns = 0
    /\ cacheWrites = 0
    /\ cacheDeleted = FALSE
    /\ cacheReads = 0
    /\ persisted = {files[f]["refresh_token"] : f \in DOMAIN files}
    /\ opArgs = NoOp
    /\ opOut = <<>>

----------------------------------------------------------------------------
(* Environment *)

\* the token_cache file is in the working directory
CacheOnDisk == "token_cache" \in DOMAIN files

\* time passes between two gateway calls
Tick ==
    /\ pc = "idle"
    /\ now < MaxNow
    /\ now' = now + 1
    /\ UNCHANGED <<files, config, headers, pc, trace, result, start,
                   authRuns, cacheWrites, cacheDeleted>>
    /\ UNCHANGED <<cacheReads, persisted, opVars>>

\* the token_cache file is deleted by hand between two gateway calls
DeleteCache ==
    /\ pc = "idle"
    /\ CacheOnDisk
    /\ files' = EmptyDict
    /\ cacheDeleted' = TRUE
    /\ UNCHANGED <<config, headers, now, pc, trace, result, start,
                   authRuns, cacheWrites>>
    /\ UNCHANGED <<cacheReads, persisted, opVars>>

----------------------------------------------------------------------------
(* _request, line by line *)

\* a brokerage operation calls self._request(...)
Call ==
    /\ pc = "idle"
    /\ authRuns < MaxAuthRuns
    /\ pc' = "L88"
    /\ trace' = <<>>
    /\ result' = Pending
    /\ start' = [refresh_token |-> Has(config, "refresh_token"),
                 cache |-> CacheOnDisk,
                 access_token |-> Has(config, "access_token"),
                 expired |-> /\ Has(config, "access_token")
                             /\ Has(config, "token_expiration")
                             /\ now >= config["token_expiration"],
                 valid |-> /\ Has(config, "access_token")
                           /\ Has(config, "token_expiration")
                           /\ now < config["token_expiration"]]
    /\ UNCHANGED <<files, config, headers, now, authRuns, cacheWrites, cacheDeleted>>
    /\ cacheReads < MaxCacheReads
    /\ UNCHANGED <<cacheReads, persisted, opVars>>

\* line 88: if not os.path.exists('token_cache')
Request_L88 ==
    /\ pc = "L88"
    /\ pc' = IF ~PathExists(files, "token_cache") THEN "L89" ELSE "L92"
    /\ UNCHANGED <<files, config, headers, now, trace, result, start,
                   authRuns, cacheWrites, cacheDeleted>>
    /\ UNCHANGED <<cacheReads, persisted, opVars>>

\* line 89: self._authenticate(), lines 32-65.  The exchange either raises
\* (transport failure, body that is not JSON) or yields a JSON body, which
\* is written to token_cache whatever the HTTP status was.
Authenticate ==
    /\ pc = "L89"
    /\ authRuns' = authRuns + 1
    /\ \/ /\ trace' = Append(trace, Event("authenticate", "raise"))
          /\ result' = Raised("RequestException")
          /\ pc' = "done"
          /\ UNCHANGED <<files, cacheWrites>>
       \/ \E rt \in RefreshTokens :
          /\ trace' = Append(trace, Event("authenticate", "ok"))
          /\ files' = Put(files, "token_cache", TokenRecord(rt))
          /\ cacheWrites' = cacheWrites + 1
          /\ pc' = "L92"
          /\ UNCHANGED result
       \/ /\ trace' = Append(trace, Event("authenticate", "status_error"))
          /\ files' = Put(files, "token_cache", ErrorRecord)
          /\ cacheWrites' = cacheWrites + 1
          /\ pc' = "L92"
          /\ UNCHANGED result
    /\ UNCHANGED <<config, headers, now, start, cacheDeleted>>
    /\ persisted' = persisted \cup
            {files'[f]["refresh_token"] : f \in {g \in DOMAIN files' : Has(files'[g], "refresh_token")}}
    /\ UNCHANGED <<cacheReads, opVars>>

\* lines 92-95: load the refresh token from token_cache
Request_L92 ==
    /\ pc = "L92"
    /\ IF ~Has(config, "refresh_token")
       THEN IF ~CacheOnDisk
            THEN /\ trace' = Append(trace, Event("load", "raise"))
                 /\ result' = Raised("FileNotFoundError")
                 /\ pc' = "done"
                 /\ UNCHANGED config
            ELSE IF Has(files["token_cache"], "refresh_token")
            THEN /\ config' = Put(config, "refresh_token",
                                  files["token_cache"]["refresh_token"])
                 /\ trace' = Append(trace, Event("load", "ok"))
                 /\ pc' = "L98"
                 /\ UNCHANGED result
            ELSE /\ trace' = Append(trace, Event("load", "raise"))
                 /\ result' = Raised("KeyError")
                 /\ pc' = "done"
                 /\ UNCHANGED config
       ELSE /\ pc' = "L98"
            /\ UNCHANGED <<config, trace, result>>
    /\ UNCHANGED <<files, headers, now, start, authRuns, cacheWrites, cacheDeleted>>
    /\ cacheReads' = IF ~Has(config, "refresh_token") /\ CacheOnDisk
                   THEN cacheReads + 1 ELSE cacheReads
    /\ UNCHANGED <<persisted, opVars>>

\* line 98: does the access token need a refresh
Request_L98 ==
    /\ pc = "L98"
    /\ IF ExpirationMissing(config)
       THEN /\ result' = Raised("KeyError")
            /\ pc' = "done"
       ELSE /\ pc' = IF NeedsRefresh(config, now) THEN "L99" ELSE "L101"
            /\ UNCHANGED result
    /\ UNCHANGED <<files, config, headers, now, trace, start,
                   authRuns, cacheWrites, cacheDeleted>>
    /\ UNCHANGED <<cacheReads, persisted, opVars>>

\* lines 79-81 storing the new access token under 'refresh_token' as well
RefreshAssign_ClobbersRefreshToken(cfg, body, t) ==
    IF ~Has(body, "access_token") THEN cfg
    ELSE LET c0 == Put(cfg, "refresh_token", body["access_token"])
             c1 == Put(c0, "access_token", body["access_token"]) IN
         IF ~Has(body, "id_token") THEN c1
         ELSE LET c2 == Put(c1, "id_token", body["id_token"]) IN
              IF ~Has(body, "expires_in") THEN c2
              ELSE Put(c2, "token_expiration",
                       TokenExpiration(t, body["expires_in"]))

\* lines 79-81 of _refresh: the assignments from the response body, in
\* order, up to the first key the body lacks (a KeyError)
RefreshAssign(cfg, body, t) ==
    IF ~Has(body, "access_token") THEN cfg
    ELSE LET c1 == Put(cfg, "access_token", body["access_token"]) IN
         IF ~Has(body, "id_token") THEN c1
         ELSE LET c2 == Put(c1, "id_token", body["id_token"]) IN
              IF ~Has(body, "expires_in") THEN c2
              ELSE Put(c2, "token_expiration",
                       TokenExpiration(t, body["expires_in"]))

\* no subscript of lines 79-81 raises
RefreshComplete(body) == RefreshKeys \subseteq DOMAIN body

\* line 82 setting the header only when the session has none yet
HeadersUpdate_SetDefault(hdrs, cfg) ==
    IF Has(hdrs, "Authorization") THEN hdrs
    ELSE Put(hdrs, "Authorization", Bearer(cfg["access_token"]))

\* line 82: self._s.headers.update({'Authorization': 'Bearer ' + access_token})
HeadersUpdate(hdrs, cfg) == Put(hdrs, "Authorization", Bearer(cfg["access_token"]))

\* lines 99-101 with the exception of _refresh swallowed
RefreshNext_Swallow(ok) == "L101"

\* lines 99-101: an exception of _refresh leaves _request, its return goes
\* on to the brokerage request
RefreshNext(ok) == IF ok THEN "L101" ELSE "done"

\* line 99: self._refresh(), lines 67-82.  The POST either raises or yields
\* a JSON body; the HTTP status is never looked at.
Refresh ==
    /\ pc = "L99"
    /\ \/ /\ trace' = Append(trace, Event("refresh", "raise"))
          /\ result' = Raised("RequestException")
          /\ pc' = RefreshNext(FALSE)
          /\ UNCHANGED <<config, headers>>
       \/ \E keys \in SUBSET RefreshKeys, tok \in AccessTokens, e \in ExpiresIn :
          LET body == RefreshBody(keys, tok, e) IN
          /\ config' = RefreshAssign(config, body, now)
          /\ IF RefreshComplete(body)
             THEN /\ headers' = HeadersUpdate(headers, config')
                  /\ trace' = Append(trace, RefreshEvent(e, tok))
                  /\ UNCHANGED result
             ELSE /\ trace' = Append(trace, Event("refresh", "incomplete"))
                  /\ result' = Raised("KeyError")
                  /\ UNCHANGED headers
          /\ pc' = RefreshNext(RefreshComplete(body))
    /\ UNCHANGED <<files, now, start, authRuns, cacheWrites, cacheDeleted>>
    /\ UNCHANGED <<cacheReads, persisted, opVars>>

\* lines 101-108: issue the brokerage request and classify the response
Request_L101 ==
    /\ pc = "L101"
    /\ pc' = "done"
    /\ \/ /\ trace' = Append(trace, Event("request", "raise"))
          /\ result' = Raised("RequestException")
       \/ \E status_code \in Statuses, reason \in Reasons :
          /\ trace' = Append(trace, ResponseEvent(status_code, reason))
          /\ result' = IF ~RespOk(status_code)
                       THEN RaisedApi(status_code, reason)
                       ELSE Returned(status_code)
    /\ UNCHANGED <<files, config, headers, now, start,
                   authRuns, cacheWrites, cacheDeleted>>
    /\ UNCHANGED <<cacheReads, persisted, opVars>>

\* the call is over: its caller has the response or the exception
Return ==
    /\ pc = "done"
    /\ pc' = "idle"
    /\ trace' = <<>>
    /\ result' = Pending
    /\ start' = NoCall
    /\ UNCHANGED <<files, config, headers, now, authRuns, cacheWrites, cacheDeleted>>
    /\ UNCHANGED <<cacheReads, persisted, opVars>>

----------------------------------------------------------------------------
Next ==
    \/ Tick
    \/ DeleteCache
    \/ Call
    \/ Request_L88
    \/ Authenticate
    \/ Request_L92
    \/ Request_L98
    \/ Refresh
    \/ Request_L101
    \/ Return

Spec == Init /\ [][Next]_vars

----------------------------------------------------------------------------
TypeOK ==
    /\ DOMAIN files \subseteq {"token_cache"}
    /\ now \in 0..MaxNow
    /\ pc \in {"idle", "done", "L88", "L89", "L92", "L98", "L99", "L101"}
    /\ authRuns \in 0..MaxAuthRuns
    /\ cacheDeleted \in BOOLEAN
    /\ cacheReads \in 0..MaxCacheReads
    /\ persisted \subseteq RefreshTokens

----------------------------------------------------------------------------
(* What the claims speak of *)

\* a gateway call is running or has just ended
InCall == pc # "idle"

\* _request is about to issue the brokerage HTTP request
Issuing == pc = "L101"

Last(tr) == tr[Len(tr)]

\* positions of `tr` where step `op` was taken
At(tr, op) == {i \in DOMAIN tr : tr[i][1] = op}

\* positions of `tr` where step `op` failed
FailedAt(tr, op) == {i \in At(tr, op) : tr[i][2] # "ok"}

IsPrefix(a, b) == Len(a) <= Len(b) /\ \A i \in DOMAIN a : a[i] = b[i]

BootstrapOrder == <<"authenticate", "load", "refresh", "request">>

----------------------------------------------------------------------------
\* C1 (as stated): whenever _request issues the brokerage request, the
\* session holds an access_token and a token_expiration that is set and
\* strictly later than the current instant, whatever positive expires_in
\* the provider answered with.
C1_NeverIssuedExpired ==
    Issuing =>
        /\ Has(config, "access_token")
        /\ Has(config, "token_expiration")
        /\ config["token_expiration"] > now

\* C1 (amended): whenever _request issues the brokerage request, the session
\* holds an access_token and a token_expiration, and the token_expiration is
\* strictly later than the current instant unless this call has just
\* refreshed with an expires_in of at most 60 seconds.
C1_IssuedFreshUnlessShortLived ==
    Issuing =>
        /\ Has(config, "access_token")
        /\ Has(config, "token_expiration")
        /\ \/ config["token_expiration"] > now
           \/ \E i \in At(trace, "refresh") :
                 /\ trace[i][2] = "ok"
                 /\ trace[i][3] <= SafetyMargin
                 /\ config["token_expiration"] = now + trace[i][3] - SafetyMargin

C1_Witness ==
    /\ Issuing
    /\ start.expired
    /\ config["token_expiration"] > now

C3_BootstrapOrder ==
    (InCall /\ ~start.cache /\ ~start.refresh_token) =>
        /\ IsPrefix(Ops(trace), BootstrapOrder)
        /\ pc \notin {"L88", "L89"} => Cardinality(At(trace, "authenticate")) = 1
        /\ Issuing => /\ Ops(trace) = SubSeq(BootstrapOrder, 1, 3)
                      /\ \A i \in DOMAIN trace : trace[i][2] = "ok"
        /\ pc = "done" => \/ Ops(trace) = BootstrapOrder
                          \/ FailedAt(trace, Last(trace)[1]) # {}

C3_Witness ==
    /\ pc = "done"
    /\ ~start.cache
    /\ ~start.refresh_token
    /\ result.kind = "returned"
    /\ Ops(trace) = BootstrapOrder

\* C4: a gateway call entered with an access_token held and
\* now < token_expiration performs no token-endpoint call: neither an
\* authorization-code exchange nor a refresh POST.
C4_ValidTokenNoTokenEndpoint ==
    (InCall /\ start.valid) =>
        /\ At(trace, "authenticate") = {}
        /\ At(trace, "refresh") = {}

\* C5: a gateway call runs the interactive authorization flow only when the
\* session has no refresh_token and no token_cache file exists; a session
\* that holds a refresh_token never runs it.
C5_AuthorizeOnlyWithoutRefreshToken ==
    (InCall /\ At(trace, "authenticate") # {}) =>
        /\ ~start.refresh_token
        /\ ~start.cache

\* C6 (as stated): as long as token_cache was never deleted by hand, the
\* interactive authorization flow has run at most once in total, failed
\* exchanges included.
C6_AuthorizeAtMostOnce ==
    ~cacheDeleted => authRuns <= 1

\* C6 (amended): as long as token_cache was never deleted by hand, the
\* authorization flow starts only while the file is absent, runs at most
\* once per gateway call, and at most one run in total gets a response body
\* from the exchange (and so writes the file); a run whose exchange raised
\* leaves the file absent and the flow runs again on the next call.
C6_AuthorizeOnceResponded ==
    ~cacheDeleted =>
        /\ cacheWrites <= 1
        /\ Cardinality(At(trace, "authenticate")) <= 1
        /\ pc = "L89" => ~CacheOnDisk
        /\ cacheWrites = 1 => CacheOnDisk

C6_Witness ==
    /\ ~cacheDeleted
    /\ authRuns = 2
    /\ cacheWrites = 1

\* C7: whenever the token_cache file exists it holds a refresh_token.
C7_CacheHoldsRefreshToken ==
    CacheOnDisk => Has(files["token_cache"], "refresh_token")

\* C8: when the authorization-code exchange fails (transport failure or
\* non-success status) the authorization flow fails: the gateway call ends
\* there with an exception, having done no refresh POST and no brokerage
\* request.
C8_FailedExchangeEndsCall ==
    \A i \in FailedAt(trace, "authenticate") :
        /\ i = Len(trace)
        /\ pc = "done"
        /\ result.kind = "raised"

\* C9: when the refresh-token exchange fails the gateway call ends there
\* with an exception: no brokerage request is issued, the authorization
\* flow is not run as a fallback and the refresh POST is not repeated.
C9_FailedRefreshEndsCall ==
    \A i \in FailedAt(trace, "refresh") :
        /\ i = Len(trace)
        /\ pc = "done"
        /\ result.kind = "raised"
        /\ result.exc # "ApiException"
        /\ At(trace, "refresh") = {i}
        /\ At(trace, "request") = {}

C9_Witness ==
    /\ pc = "done"
    /\ FailedAt(trace, "refresh") # {}
    /\ Has(config, "access_token")

\* the gateway call has ended on a response of the brokerage endpoint
Answered == pc = "done" /\ trace # <<>> /\ Last(trace)[2] = "response"

\* C10 (as stated): the gateway returns the response if and only if its
\* status is 2xx; for every other status it raises ApiException carrying
\* the status code and reason, having issued the request once.
C10_ReturnsIff2xx ==
    Answered =>
        LET status_code == Last(trace)[3] IN
        /\ result.kind = "returned" <=> status_code \in 200..299
        /\ status_code \notin 200..299 =>
              /\ result.exc = "ApiException"
              /\ result.message = <<status_code, Last(trace)[4]>>
        /\ Cardinality(At(trace, "request")) = 1

\* C10 (amended): the gateway returns the response if and only if its
\* status is below 400 (2xx, and also 3xx such as 304); for every 4xx and
\* 5xx status it raises ApiException carrying the status code and reason,
\* having issued the request once.
C10_ReturnsIffBelow400 ==
    Answered =>
        LET status_code == Last(trace)[3] IN
        /\ status_code < 400 =>
              /\ result.kind = "returned"
              /\ result.status = status_code
        /\ status_code \in 400..599 =>
              /\ result.kind = "raised"
              /\ result.exc = "ApiException"
              /\ result.message = <<status_code, Last(trace)[4]>>
        /\ Cardinality(At(trace, "request")) = 1

C10_Witness ==
    /\ Answered
    /\ Last(trace)[3] \in 300..399
    /\ result.kind = "returned"

----------------------------------------------------------------------------
\* a step of the call that failed: an exchange that raised or was answered
\* with a non-success status or an incomplete body, a cache load that
\* raised, a brokerage request that raised or was answered with 4xx or 5xx
FailedStep(ev) ==
    \/ ev[2] \in {"raise", "status_error", "incomplete"}
    \/ ev[2] = "response" /\ ev[3] \in 400..599

\* a failure of the provider or the transport (not of the session itself)
ProviderFailure(ev) == ev[1] # "load" /\ FailedStep(ev)

\* C11: no automatic retry: a gateway call performs at most one
\* authorization-code exchange, at most one refresh POST and at most one
\* brokerage request, and every failure ends the call there with an error
\* for its caller (none is swallowed).
C11_NoRetryNoSwallow ==
    /\ \A op \in {"authenticate", "refresh", "request"} :
          Cardinality(At(trace, op)) <= 1
    /\ \A i \in DOMAIN trace :
          FailedStep(trace[i]) =>
              /\ i = Len(trace)
              /\ pc = "done"
              /\ result.kind = "raised"

\* C12: over the lifetime of a session, failed gateway calls included, the
\* token cache is read at most once.
C12_CacheReadAtMostOnce ==
    cacheReads <= 1

\* _refresh is about to POST self.config['refresh_token']
Refreshing == pc = "L99"

\* C13: the refresh_token sent in a refresh POST was persisted in the token
\* cache before, and equals the refresh_token of the record now in the
\* token cache whenever there is such a record.
C13_RefreshTokenIsCached ==
    Refreshing =>
        /\ Has(config, "refresh_token")
        /\ config["refresh_token"] \in persisted
        /\ (CacheOnDisk /\ Has(files["token_cache"], "refresh_token")) =>
              config["refresh_token"] = files["token_cache"]["refresh_token"]

\* C16: access_token, id_token, token_expiration and the Authorization
\* header are either all unset or all set from one token response (a failed
\* refresh leaving all four as they were).
C16_RefreshAllOrNothing ==
    \/ /\ ~Has(config, "access_token")
       /\ ~Has(config, "id_token")
       /\ ~Has(config, "token_expiration")
       /\ ~Has(headers, "Authorization")
    \/ /\ Has(config, "access_token")
       /\ Has(config, "id_token")
       /\ Has(config, "token_expiration")
       /\ Has(headers, "Authorization")
       /\ config["id_token"] = IdToken(config["access_token"])
       /\ headers["Authorization"] = Bearer(config["access_token"])

\* C17: whenever _request issues the brokerage request, the Authorization
\* header of the session is "Bearer " + the session's access_token, and that
\* is the access_token of the last successful refresh.
C17_BearerIsCurrentToken ==
    Issuing =>
        /\ Has(headers, "Authorization")
        /\ Has(config, "access_token")
        /\ headers["Authorization"] = Bearer(config["access_token"])
        /\ \A i \in At(trace, "refresh") :
              /\ trace[i][2] = "ok"
              /\ config["access_token"] = trace[i][4]

C17_Witness ==
    /\ Issuing
    /\ start.expired
    /\ At(trace, "refresh") # {}
    /\ headers["Authorization"] = Bearer("at_b")

\* the fields of self.config set by __init__
ConstructionKeys == DOMAIN InitConfig

\* C18: _refresh and the brokerage request step leave the session's
\* refresh_token and the token cache as they are; the token cache is written
\* by _authenticate only, at most once per run (deletion by hand aside);
\* no step changes client_id, secret_key, username, account, base_url or
\* return_uri.
C18_Frame ==
    [][ /\ pc \in {"L99", "L101"} =>
              /\ files' = files
              /\ Has(config, "refresh_token")
              /\ Has(config', "refresh_token")
              /\ config'["refresh_token"] = config["refresh_token"]
        /\ files' # files =>
              \/ pc = "idle" /\ files' = EmptyDict
              \/ pc = "L89" /\ cacheWrites' = cacheWrites + 1
        /\ cacheWrites' # cacheWrites =>
              /\ pc = "L89"
              /\ cacheWrites' = cacheWrites + 1
        /\ \A k \in ConstructionKeys :
              /\ Has(config', k)
              /\ config'[k] = config[k]
      ]_vars

C18_Witness ==
    /\ Issuing
    /\ At(trace, "refresh") # {}
    /\ Has(config, "refresh_token")
    /\ cacheWrites = 1

\* C19: a gateway call during which the provider and the transport answer
\* every exchange successfully (valid code, complete token responses,
\* brokerage status below 400), whatever failed in earlier calls, issues
\* its brokerage request and returns the response.
C19_GoodCallReturns ==
    (pc = "done" /\ \A i \in DOMAIN trace : ~ProviderFailure(trace[i])) =>
        /\ result.kind = "returned"
        /\ At(trace, "request") # {}

----------------------------------------------------------------------------
(* The brokerage operations with logic of their own: check_margin and the   *)
(* query parameters of get_bars.  Each is run on arguments drawn at the     *)
(* start; the gateway call underneath is taken to have returned.            *)

MaxUnits == 1

\* a decimal amount as the API sends it, e.g. "10000.00": <<units, hundredths>>
Amounts == (0..MaxUnits) \X {0, 1, 99}

\* float(text) of such an amount, in hundredths
Float(amount) == amount[1] * 100 + amount[2]

\* an entry of account['Balances']
BalanceEntries ==
    [BuyingPower : Amounts, BalanceDetail : [InitialMargin : Amounts]]

\* the 'Balances' lists of one or two entries
BalancesLists ==
    {<<e>> : e \in BalanceEntries} \cup
    {<<e, f>> : e \in BalanceEntries,
                f \in {g \in BalanceEntries : g.BuyingPower = <<0, 0>>}}

\* line 225 with >= for >
CheckMargin_AtLeast(account) ==
    LET buying_power == Float(account.Balances[1].BuyingPower)
        margin == Float(account.Balances[1].BalanceDetail.InitialMargin)
    IN  buying_power >= margin

\* lines 222-225 of check_margin, on the decoded body `account`
CheckMarginResult(account) ==
    LET buying_power == Float(account.Balances[1].BuyingPower)
        margin == Float(account.Balances[1].BalanceDetail.InitialMargin)
    IN  buying_power > margin

\* Python values of the optional arguments of get_bars
PyNone == <<"NoneType">>
PyInt(n) == <<"int", n>>
PyText(text) == <<"str", text>>

\* str(value)
PyStr(value) ==
    CASE value[1] = "NoneType" -> "None"
      [] value[1] = "int" -> ToString(value[2])
      [] value[1] = "str" -> value[2]

BarsKeys == {"interval", "unit", "barsback", "startdate", "sessiontemplate"}

\* lines 137-143 of get_bars: the query parameters sent for `args`
BarsParams(args) ==
    LET params == [k \in BarsKeys |-> PyStr(args[k])]
    IN  [k \in {x \in BarsKeys : params[x] # "None"} |-> params[k]]

\* the arguments get_bars is tried on: each one unset or supplied
BarsArgs ==
    [interval : {PyNone, PyInt(1), PyInt(5)},
     unit : {PyNone, PyText("Minute"), PyText("None")},
     barsback : {PyNone, PyInt(10)},
     startdate : {PyNone, PyText("01-01-2024")},
     sessiontemplate : {PyNone, PyText("USEQPre"), PyText("None")}]

OpsInit ==
    /\ files = EmptyDict
    /\ config = InitConfig
    /\ headers = EmptyDict
    /\ now = 0
    /\ pc = "idle"
    /\ trace = <<>>
    /\ result = Pending
    /\ start = NoCall
    /\ authRuns = 0
    /\ cacheWrites = 0
    /\ cacheDeleted = FALSE
    /\ cacheReads = 0
    /\ persisted = {}
    /\ opArgs \in [op : {"check_margin"}, account : [Balances : BalancesLists]]
                  \cup [op : {"get_bars"}, args : BarsArgs]
    /\ opOut = <<>>

\* check_margin, lines 218-225
CheckMargin ==
    /\ opArgs.op = "check_margin"
    /\ opOut = <<>>
    /\ opOut' = <<CheckMarginResult(opArgs.account)>>
    /\ UNCHANGED <<files, config, headers, now, pc, trace, result, start,
                   authRuns, cacheWrites, cacheDeleted, cacheReads, persisted,
                   opArgs>>

\* get_bars up to its gateway call, lines 133-145
GetBars ==
    /\ opArgs.op = "get_bars"
    /\ opOut = <<>>
    /\ opOut' = <<BarsParams(opArgs.args)>>
    /\ UNCHANGED <<files, config, headers, now, pc, trace, result, start,
                   authRuns, cacheWrites, cacheDeleted, cacheReads, persisted,
                   opArgs>>

OpsNext ==
    \/ CheckMargin
    \/ GetBars

SpecOps == OpsInit /\ [][OpsNext]_vars

----------------------------------------------------------------------------
\* C14: check_margin returns true exactly when the buying power of the
\* first balance entry is strictly greater than its initial margin, and
\* false when it is less or equal.
C14_MarginStrictlyGreater ==
    (opArgs.op = "check_margin" /\ opOut # <<>>) =>
        LET bp == opArgs.account.Balances[1].BuyingPower
            im == opArgs.account.Balances[1].BalanceDetail.InitialMargin
        IN  opOut[1] <=> \/ bp[1] > im[1]
                         \/ bp[1] = im[1] /\ bp[2] > im[2]

C14_Witness ==
    /\ opArgs.op = "check_margin"
    /\ opOut = <<FALSE>>
    /\ Len(opArgs.account.Balances) = 2
    /\ opArgs.account.Balances[1].BuyingPower = <<1, 0>>
    /\ opArgs.account.Balances[1].BalanceDetail.InitialMargin = <<1, 0>>

\* C15: the query parameters of get_bars hold exactly the keys whose
\* argument was supplied: an unset argument is left out and every supplied
\* argument is sent.
C15_ParamsAreTheSuppliedArgs ==
    (opArgs.op = "get_bars" /\ opOut # <<>>) =>
        DOMAIN opOut[1] = {k \in BarsKeys : opArgs.args[k] # PyNone}

====
